---- MODULE Spec2Model ----
(***************************************************************************)
(* The per-topic full/diff broker of svckit (package broker): the registry *)
(* of brokers, the Broker object with its subscriber map and its two       *)
(* read/write locks, the subscribe handshake goroutine, diff fan-out over  *)
(* unbuffered channels and the TTL sweep.                                  *)
(*                                                                         *)
(* A sync.RWMutex is a record [w, r]: w is the writer that has announced   *)
(* itself (Lock() called; it owns the lock once r is empty), r the set of  *)
(* readers.  As in Go, RLock() blocks while a writer is announced.         *)
(* A send on an unbuffered channel is one step, the rendezvous with the    *)
(* channel's reader; a reader that is absent is a step that is not taken.  *)
(***************************************************************************)
EXTENDS Integers, Sequences, FiniteSets, TLC

\* ---------------------------------------------------------------- bounds
\* publish and subscribe calls of one run of SpecPubSub (one more in SpecStream)
MaxOps == 3
\* in runs of Spec: publish and subscribe calls (at most MaxOps),
\* Unsubscribe and CleanUpBrokers calls
MaxPubSub == 2
MaxAdmin == 2
\* defaultSize, scaled down from 100
DefaultSize == 2
\* Unsubscribe and CleanUpBrokers calls of one run of SpecTopics and of SpecLive
MaxSweeps == 1

\* time.Hour, the unit of the model's clock
TTL == 1

\* the clock stops once a Broker created at 0 has expired
MaxTime == TTL + 1

Threads == {1, 2}
Topics == {"t1", "t2"}
\* a call constructs at most one Broker, makes at most one channel
BrokerIds == 1..(MaxOps + 1)
Chans == 1..(MaxOps + 1)
None == 0
NoBroker == 0

\* the lock holder id of the handshake goroutine of channel c
HsId(c) == 100 + c

VARIABLES
    brokers,      \* registry: topic -> broker id, NoBroker when absent
    brokersLock,  \* writer holding the registry lock, or None
    nBrokers,     \* Broker objects constructed so far
    size,         \* ring capacity of each Broker's state
    ring,         \* the ring buffer contents, oldest first
    subscribers,  \* per Broker: channel -> sentFull
    mu,           \* the Broker's embedded RWMutex
    removeLock,   \* the Broker's removeLock
    updated,      \* the Broker's updated timestamp
    now,          \* the clock
    nMsgs,        \* Messages constructed so far
    nChans,       \* channels made so far
    chBroker,     \* the Broker whose Subscribe made the channel
    closeCount,   \* times close(ch) ran
    recv,         \* what the reader of each channel has received
    reading,      \* whether the consumer of each channel still receives from it
    pc, loc,      \* per thread: position and locals
    hs, snap,     \* per channel: position of the handshake goroutine, backlog left to send
    nOps,         \* publish and subscribe calls begun so far
    nAdmin,       \* Unsubscribe and CleanUpBrokers calls begun so far
    cfg,          \* limits of the run, fixed by Init
    hist,         \* history variables, read only by the properties
    msg,          \* package amp: the Msg under test
    obs           \* package amp: what the calls on msg returned

vars == <<brokers, brokersLock, nBrokers, size, ring, subscribers, mu, removeLock,
          updated, now, nMsgs, nChans, chBroker, closeCount, recv, reading, pc,
          loc, hs, snap, nOps, nAdmin, cfg, hist, msg, obs>>

regVars == <<brokers, brokersLock, nBrokers>>
brokerVars == <<size, ring, subscribers, mu, removeLock, updated>>
chanVars == <<nChans, chBroker, closeCount, recv, reading>>
hsVars == <<hs, snap>>
envVars == <<msg, obs>>

EmptyMap == [x \in {} |-> TRUE]
Unlocked == [w |-> None, r |-> {}]
Idle == [op |-> "none", kind |-> "none", topic |-> "none", b |-> NoBroker, m |-> 0,
         ch |-> 0, todo |-> {}, tps |-> {}, after |-> {}]

\* ------------------------------------------------------------ ring buffer
\* put: append, evicting the oldest entry at capacity
RingPut(buf, cap, m) ==
    IF Len(buf) < cap THEN Append(buf, m) ELSE Append(Tail(buf), m)

\* get: the latest message (0 when nothing was stored)
RingGet(buf) == IF buf = <<>> THEN 0 ELSE buf[Len(buf)]

\* emit: the buffered messages, oldest first, as a snapshot
RingEmit(buf) == buf

\* waitTouch returns once a message has been stored
RingTouched(buf) == buf # <<>>

\* ---------------------------------------------------------------- Broker
NewFullDiffBrokerSize == 1

NewBufferedBrokerAsFull(sz) == NewFullDiffBrokerSize
NewBufferedBrokerSize(sz) == sz

NewBrokerSize(kind) ==
    IF kind = "buf" THEN NewBufferedBrokerSize(DefaultSize) ELSE NewFullDiffBrokerSize

\* setSubscriber: b.subscribers[ch] = sentFull
SetSubscriber(subs, ch, sentFull) ==
    [x \in DOMAIN subs \cup {ch} |-> IF x = ch THEN sentFull ELSE subs[x]]

\* Unsubscribe: whether ch is deleted and closed
UnsubscribeAlways(subs, ch) == TRUE
UnsubscribeCloses(subs, ch) == ch \in DOMAIN subs

\* Unsubscribe: delete(b.subscribers, ch)
UnsubscribeMap(subs, ch) == [x \in DOMAIN subs \ {ch} |-> subs[x]]

\* Unsubscribe's body on the map and on the number of times ch was closed
UnsubscribeApply(subs, n, ch) ==
    IF UnsubscribeCloses(subs, ch) THEN <<UnsubscribeMap(subs, ch), n + 1>>
    ELSE <<subs, n>>

\* diff: the channels the loop sends to
DiffTargetsInverted(subs) == {c \in DOMAIN subs : ~subs[c]}
DiffTargets(subs) == {c \in DOMAIN subs : subs[c]}

\* diff: b.RLock() held over the sends
DiffNoRLock(l, t) == l
DiffRLocked(l, t) == [l EXCEPT !.r = @ \cup {t}]

\* expired: b.updated.Before(time.Now().Add(-ttl))
Expired(upd, t) == upd < t - TTL

\* the statements of Subscribe's goroutine, in program order
HsStepSetFirst(s) ==
    CASE s = "rlock" -> "wait"
      [] s = "wait" -> "set"
      [] s = "set" -> "emit"
      [] s = "emit" -> "unlock"
      [] OTHER -> "done"
HsStep(s) ==
    CASE s = "rlock" -> "wait"
      [] s = "wait" -> "emit"
      [] s = "emit" -> "set"
      [] s = "set" -> "unlock"
      [] OTHER -> "done"

\* ch <- msg completes when a receiver takes the message; on a closed channel
\* it panics at once
CanSend(c) == reading[c] \/ closeCount[c] > 0

\* a write lock on l can be entered by holder h
CanEnter(l, h) == l.r = {} /\ l.w \in {None, h}
CanRLock(l) == l.w = None

Holders == Threads \cup {HsId(c) : c \in Chans}

\* package amp: no Msg is under test in a run of the broker
NoMsg == [made |-> FALSE]
NoObs == [calls |-> 0, returned |-> FALSE, out |-> <<>>, used |-> FALSE, asked |-> 0,
          builds |-> <<0, 0>>, topics |-> <<>>, paths |-> <<>>]

Init0(ops, admin, topics) ==
    /\ brokers = [tp \in Topics |-> NoBroker]
    /\ brokersLock = None
    /\ nBrokers = 0
    /\ size = [b \in BrokerIds |-> 0]
    /\ ring = [b \in BrokerIds |-> <<>>]
    /\ subscribers = [b \in BrokerIds |-> EmptyMap]
    /\ mu = [b \in BrokerIds |-> Unlocked]
    /\ removeLock = [b \in BrokerIds |-> Unlocked]
    /\ updated = [b \in BrokerIds |-> 0]
    /\ now = 0
    /\ nMsgs = 0
    /\ nChans = 0
    /\ chBroker = [c \in Chans |-> NoBroker]
    /\ closeCount = [c \in Chans |-> 0]
    /\ recv = [c \in Chans |-> <<>>]
    /\ reading = [c \in Chans |-> TRUE]
    /\ pc = [t \in Threads |-> "idle"]
    /\ loc = [t \in Threads |-> Idle]
    /\ hs = [c \in Chans |-> "none"]
    /\ snap = [c \in Chans |-> <<>>]
    /\ nOps = 0
    /\ nAdmin = 0
    /\ cfg = [ops |-> ops, admin |-> admin, topics |-> topics]
    /\ msg = NoMsg
    /\ obs = NoObs
    /\ hist = [puts |-> [b \in BrokerIds |-> <<>>],
               panicked |-> FALSE,
               unsubCalls |-> [c \in Chans |-> 0],
               unsubRet |-> [c \in Chans |-> 0],
               sweeps |-> 0,
               skipped |-> [c \in Chans |-> {}],
               due |-> [c \in Chans |-> {}],
               owed |-> [c \in Chans |-> {}],
               ringAtSub |-> [c \in Chans |-> <<>>],
               snapAll |-> [c \in Chans |-> <<>>],
               emitAt |-> [c \in Chans |-> 0],
               liveAtSweep |-> [b \in BrokerIds |-> {}],
               swept |-> [b \in BrokerIds |-> FALSE],
               kind |-> [b \in BrokerIds |-> "none"],
               afterClose |-> [c \in Chans |-> {}]]

Init == Init0(MaxPubSub, MaxAdmin, {"t1"})

InitPubSub == Init0(MaxOps, 0, {"t1"})

InitStream == Init0(MaxOps + 1, 0, {"t1"})

\* callers on two topics
InitTopics == Init0(MaxPubSub, MaxSweeps, Topics)

\* consumers that may stop receiving
InitLive == Init0(MaxPubSub, MaxSweeps, {"t1"})

\* the first statement of the method a helper calls on the Broker it got
Body(op) ==
    CASE op = "Full" -> "full"
      [] op = "Stream" -> "full"
      [] op = "Diff" -> "diff"
      [] OTHER -> "sub"

\* ------------------------------------------------- publish helpers: entry
\* Full: NewMessage, then GetFullDiffBroker up to FindBroker's RLock/RUnlock
StartFull(t, tp) ==
    /\ pc[t] = "idle"
    /\ tp \in cfg.topics
    /\ nOps < cfg.ops
    /\ nOps' = nOps + 1
    /\ brokersLock = None
    /\ nMsgs' = nMsgs + 1
    /\ loc' = [loc EXCEPT ![t] = [Idle EXCEPT !.op = "Full", !.kind = "fd",
                                              !.topic = tp, !.m = nMsgs + 1]]
    /\ pc' = [pc EXCEPT ![t] = "read"]
    /\ UNCHANGED <<regVars, brokerVars, chanVars, hsVars, now, nAdmin, cfg, envVars, hist>>

\* Diff: NewMessage, then GetFullDiffBroker up to FindBroker's RLock/RUnlock
StartDiff(t, tp) ==
    /\ pc[t] = "idle"
    /\ tp \in cfg.topics
    /\ nOps < cfg.ops
    /\ nOps' = nOps + 1
    /\ brokersLock = None
    /\ nMsgs' = nMsgs + 1
    /\ loc' = [loc EXCEPT ![t] =
                 [Idle EXCEPT !.op = "Diff", !.kind = "fd", !.topic = tp,
                              !.m = nMsgs + 1,
                              !.after = {c \in 1..nChans : hist.ringAtSub[c] # <<>>}]]
    /\ pc' = [pc EXCEPT ![t] = "read"]
    /\ UNCHANGED <<regVars, brokerVars, chanVars, hsVars, now, nAdmin, cfg, envVars, hist>>

\* Stream: NewMessage, then GetBufferedBroker up to FindBroker's RLock/RUnlock
StartStream(t, tp) ==
    /\ pc[t] = "idle"
    /\ tp \in cfg.topics
    /\ nOps < cfg.ops
    /\ nOps' = nOps + 1
    /\ brokersLock = None
    /\ nMsgs' = nMsgs + 1
    /\ loc' = [loc EXCEPT ![t] = [Idle EXCEPT !.op = "Stream", !.kind = "buf",
                                              !.topic = tp, !.m = nMsgs + 1]]
    /\ pc' = [pc EXCEPT ![t] = "read"]
    /\ UNCHANGED <<regVars, brokerVars, chanVars, hsVars, now, nAdmin, cfg, envVars, hist>>

\* a consumer gets the topic's Broker with one of the two getters and subscribes
StartSubscribe(t, tp, kind) ==
    /\ pc[t] = "idle"
    /\ tp \in cfg.topics
    /\ nOps < cfg.ops
    /\ nOps' = nOps + 1
    /\ brokersLock = None
    /\ loc' = [loc EXCEPT ![t] = [Idle EXCEPT !.op = "Subscribe", !.kind = kind,
                                              !.topic = tp]]
    /\ pc' = [pc EXCEPT ![t] = "read"]
    /\ UNCHANGED <<regVars, brokerVars, chanVars, hsVars, now, nMsgs, nAdmin, cfg, envVars, hist>>

\* ---------------------------------------------------------------- registry
\* what b, ok := brokers[topic] can yield: the entry, or, when the read runs
\* while a writer holds the lock and changes the map (a data race), also a miss
MapRead(tp) ==
    IF brokersLock = None THEN {brokers[tp]} ELSE {brokers[tp], NoBroker}

\* FindBroker's map read (after the lock was released), and the getters' branch
FindRead(t) ==
    /\ pc[t] = "read"
    /\ \E b \in MapRead(loc[t].topic) :
         IF b = NoBroker
           THEN /\ pc' = [pc EXCEPT ![t] = "create"]
                /\ loc' = loc
           ELSE /\ pc' = [pc EXCEPT ![t] = Body(loc[t].op)]
                /\ loc' = [loc EXCEPT ![t].b = b]
    /\ UNCHANGED <<regVars, brokerVars, chanVars, hsVars, now, nMsgs, nOps, nAdmin, cfg, envVars, hist>>

\* createFullDiffBroker / createBufferedBroker: brokersLock.Lock()
CreateLock(t) ==
    /\ pc[t] = "create"
    /\ brokersLock = None
    /\ brokersLock' = t
    /\ pc' = [pc EXCEPT ![t] = "insert"]
    /\ UNCHANGED <<brokers, nBrokers, brokerVars, chanVars, hsVars, now, nMsgs,
                   loc, nOps, nAdmin, cfg, envVars, hist>>

\* ... construct the Broker, brokers[topic] = b, unlock, return b
CreateInsert(t) ==
    /\ pc[t] = "insert"
    /\ LET nb == nBrokers + 1 IN
         /\ nBrokers' = nb
         /\ size' = [size EXCEPT ![nb] = NewBrokerSize(loc[t].kind)]
         /\ updated' = [updated EXCEPT ![nb] = now]
         /\ brokers' = [brokers EXCEPT ![loc[t].topic] = nb]
         /\ loc' = [loc EXCEPT ![t].b = nb]
    /\ brokersLock' = None
    /\ pc' = [pc EXCEPT ![t] = Body(loc[t].op)]
    /\ hist' = [hist EXCEPT !.kind[nBrokers + 1] = loc[t].kind]
    /\ UNCHANGED <<ring, subscribers, mu, removeLock, chanVars, hsVars, now, nMsgs,
                   nOps, nAdmin, cfg, envVars>>

\* ------------------------------------------------------------------ Broker
\* a goroutine about to take b's write lock
WantsWrite(h, b) ==
    \/ /\ h \in Threads
       /\ loc[h].b = b
       /\ \/ pc[h] \in {"full", "unsub", "active"}
          \/ pc[h] = "rmloop" /\ removeLock[b].r = {} /\ loc[h].todo # {}
    \/ \E c \in Chans : h = HsId(c) /\ hs[c] = "set" /\ chBroker[c] = b

\* b.Lock() while readers hold the lock: the writer is announced and waits
Announce(h, b) ==
    /\ WantsWrite(h, b)
    /\ mu[b].w = None
    /\ mu[b].r # {}
    /\ mu' = [mu EXCEPT ![b].w = h]
    /\ UNCHANGED <<regVars, size, ring, subscribers, removeLock, updated, chanVars,
                   pc, loc, hsVars, now, nMsgs, nOps, nAdmin, cfg, envVars, hist>>

\* full: put and the timestamp under the write lock
BrokerFull(t) ==
    /\ pc[t] = "full"
    /\ LET b == loc[t].b IN
         /\ CanEnter(mu[b], t)
         /\ ring' = [ring EXCEPT ![b] = RingPut(@, size[b], loc[t].m)]
         /\ updated' = [updated EXCEPT ![b] = now]
         /\ mu' = [mu EXCEPT ![b].w = None]
         /\ hist' = [hist EXCEPT !.puts[b] = Append(@, loc[t].m)]
    /\ IF loc[t].op = "Stream"
         THEN pc' = [pc EXCEPT ![t] = "diff"] /\ loc' = loc
         ELSE pc' = [pc EXCEPT ![t] = "idle"] /\ loc' = [loc EXCEPT ![t] = Idle]
    /\ UNCHANGED <<regVars, size, subscribers, removeLock, chanVars, hsVars, now,
                   nMsgs, nOps, nAdmin, cfg, envVars>>

\* what a returning diff records: the channels subscribed before the call began
DiffReturned(h, t) ==
    [h EXCEPT !.owed = [c \in Chans |->
        IF c \in loc[t].after /\ chBroker[c] = loc[t].b
          THEN @[c] \cup {loc[t].m} ELSE @[c]]]

\* diff: b.RLock() and the range over b.subscribers
DiffRLock(t) ==
    /\ pc[t] = "diff"
    /\ LET b == loc[t].b
           targets == DiffTargets(subscribers[b])
           flagged == {c \in DOMAIN subscribers[b] : subscribers[b][c]}
           h1 == [hist EXCEPT
                    !.skipped = [c \in Chans |->
                        IF c <= nChans /\ chBroker[c] = b /\ c \notin flagged
                          THEN @[c] \cup {loc[t].m} ELSE @[c]],
                    !.due = [c \in Chans |->
                        IF c \in flagged THEN @[c] \cup {loc[t].m} ELSE @[c]],
                    !.afterClose = [c \in Chans |->
                        IF chBroker[c] = b /\ closeCount[c] > 0
                          THEN @[c] \cup {loc[t].m} ELSE @[c]]]
       IN
         /\ CanRLock(mu[b])
         /\ IF targets = {}
              THEN /\ mu' = mu
                   /\ hist' = DiffReturned(h1, t)
                   /\ pc' = [pc EXCEPT ![t] = "idle"]
                   /\ loc' = [loc EXCEPT ![t] = Idle]
              ELSE /\ mu' = [mu EXCEPT ![b] = DiffRLocked(@, t)]
                   /\ hist' = h1
                   /\ pc' = [pc EXCEPT ![t] = "send"]
                   /\ loc' = [loc EXCEPT ![t].todo = targets]
    /\ UNCHANGED <<regVars, size, ring, subscribers, removeLock, updated, chanVars,
                   hsVars, now, nMsgs, nOps, nAdmin, cfg, envVars>>

\* diff: c <- msg for the next channel of the range; RUnlock after the last one
DiffSend(t, c) ==
    /\ pc[t] = "send"
    /\ c \in loc[t].todo
    /\ CanSend(c)
    /\ LET b == loc[t].b
           last == loc[t].todo = {c}
           h1 == [hist EXCEPT !.panicked = @ \/ closeCount[c] > 0]
       IN
         /\ recv' = IF closeCount[c] > 0 THEN recv
                    ELSE [recv EXCEPT ![c] = Append(@, [m |-> loc[t].m, k |-> "diff"])]
         /\ IF last
              THEN /\ mu' = [mu EXCEPT ![b].r = @ \ {t}]
                   /\ hist' = DiffReturned(h1, t)
                   /\ pc' = [pc EXCEPT ![t] = "idle"]
                   /\ loc' = [loc EXCEPT ![t] = Idle]
              ELSE /\ mu' = mu
                   /\ hist' = h1
                   /\ pc' = pc
                   /\ loc' = [loc EXCEPT ![t].todo = @ \ {c}]
    /\ UNCHANGED <<regVars, size, ring, subscribers, removeLock, updated, nChans,
                   chBroker, closeCount, reading, hsVars, now, nMsgs, nOps, nAdmin, cfg, envVars>>

\* Subscribe: make the channel, start the goroutine, return the channel
BrokerSubscribe(t) ==
    /\ pc[t] = "sub"
    /\ LET c == nChans + 1
           b == loc[t].b
       IN
         /\ nChans' = c
         /\ chBroker' = [chBroker EXCEPT ![c] = b]
         /\ hs' = [hs EXCEPT ![c] = "rlock"]
         /\ hist' = [hist EXCEPT !.ringAtSub[c] = ring[b]]
    /\ pc' = [pc EXCEPT ![t] = "idle"]
    /\ loc' = [loc EXCEPT ![t] = Idle]
    /\ UNCHANGED <<regVars, brokerVars, closeCount, recv, reading, snap, now, nMsgs, nOps, nAdmin, cfg, envVars>>

\* the goroutine: b.removeLock.RLock()
HsRLock(c) ==
    /\ hs[c] = "rlock"
    /\ CanRLock(removeLock[chBroker[c]])
    /\ removeLock' = [removeLock EXCEPT ![chBroker[c]].r = @ \cup {c}]
    /\ hs' = [hs EXCEPT ![c] = HsStep("rlock")]
    /\ UNCHANGED <<regVars, size, ring, subscribers, mu, updated, chanVars, pc, loc,
                   snap, now, nMsgs, nOps, nAdmin, cfg, envVars, hist>>

\* the goroutine: b.state.waitTouch()
HsWait(c) ==
    /\ hs[c] = "wait"
    /\ RingTouched(ring[chBroker[c]])
    /\ hs' = [hs EXCEPT ![c] = HsStep("wait")]
    /\ UNCHANGED <<regVars, brokerVars, chanVars, pc, loc, snap, now, nMsgs, nOps, nAdmin, cfg, envVars,
                   hist>>

\* the goroutine: b.state.emit(ch) takes the buffered messages
HsEmit(c) ==
    /\ hs[c] = "emit"
    /\ LET b == chBroker[c]
           s == RingEmit(ring[b])
       IN
         /\ snap' = [snap EXCEPT ![c] = s]
         /\ hs' = [hs EXCEPT ![c] = IF s = <<>> THEN HsStep("emit") ELSE "send"]
         /\ hist' = [hist EXCEPT !.snapAll[c] = s, !.emitAt[c] = Len(hist.puts[b])]
    /\ UNCHANGED <<regVars, brokerVars, chanVars, pc, loc, now, nMsgs, nOps, nAdmin, cfg, envVars>>

\* the goroutine: emit's ch <- msg, one buffered message
HsSend(c) ==
    /\ hs[c] = "send"
    /\ CanSend(c)
    /\ recv' = IF closeCount[c] > 0 THEN recv
               ELSE [recv EXCEPT ![c] = Append(@, [m |-> Head(snap[c]), k |-> "full"])]
    /\ hist' = [hist EXCEPT !.panicked = @ \/ closeCount[c] > 0]
    /\ snap' = [snap EXCEPT ![c] = Tail(@)]
    /\ hs' = [hs EXCEPT ![c] = IF Tail(snap[c]) = <<>> THEN HsStep("emit") ELSE "send"]
    /\ UNCHANGED <<regVars, brokerVars, nChans, chBroker, closeCount, reading, pc, loc, now,
                   nMsgs, nOps, nAdmin, cfg, envVars>>

\* the goroutine: b.setSubscriber(ch, true)
HsSet(c) ==
    /\ hs[c] = "set"
    /\ LET b == chBroker[c] IN
         /\ CanEnter(mu[b], HsId(c))
         /\ subscribers' = [subscribers EXCEPT ![b] = SetSubscriber(@, c, TRUE)]
         /\ mu' = [mu EXCEPT ![b].w = None]
    /\ hs' = [hs EXCEPT ![c] = HsStep("set")]
    /\ UNCHANGED <<regVars, size, ring, removeLock, updated, chanVars, pc, loc, snap,
                   now, nMsgs, nOps, nAdmin, cfg, envVars, hist>>

\* the goroutine: the deferred b.removeLock.RUnlock()
HsRUnlock(c) ==
    /\ hs[c] = "unlock"
    /\ removeLock' = [removeLock EXCEPT ![chBroker[c]].r = @ \ {c}]
    /\ hs' = [hs EXCEPT ![c] = HsStep("unlock")]
    /\ UNCHANGED <<regVars, size, ring, subscribers, mu, updated, chanVars, pc, loc,
                   snap, now, nMsgs, nOps, nAdmin, cfg, envVars, hist>>

\* a caller is about to call b.Unsubscribe(ch) on the channel's Broker
StartUnsubscribe(t, c) ==
    /\ pc[t] = "idle"
    /\ c \in 1..nChans
    /\ nAdmin < cfg.admin
    /\ nAdmin' = nAdmin + 1
    /\ loc' = [loc EXCEPT ![t] = [Idle EXCEPT !.op = "Unsubscribe",
                                              !.b = chBroker[c], !.ch = c]]
    /\ pc' = [pc EXCEPT ![t] = "unsub"]
    /\ hist' = [hist EXCEPT !.unsubCalls[c] = @ + 1]
    /\ UNCHANGED <<regVars, brokerVars, chanVars, hsVars, now, nMsgs, nOps, cfg, envVars>>

\* Unsubscribe under the write lock: delete and close when ch is in the map
BrokerUnsubscribe(t) ==
    /\ pc[t] = "unsub"
    /\ LET b == loc[t].b
           c == loc[t].ch
           res == UnsubscribeApply(subscribers[b], closeCount[c], c)
       IN
         /\ CanEnter(mu[b], t)
         /\ subscribers' = [subscribers EXCEPT ![b] = res[1]]
         /\ closeCount' = [closeCount EXCEPT ![c] = res[2]]
         /\ mu' = [mu EXCEPT ![b].w = None]
         /\ hist' = [hist EXCEPT !.unsubRet[c] = @ + 1]
    /\ pc' = [pc EXCEPT ![t] = "idle"]
    /\ loc' = [loc EXCEPT ![t] = Idle]
    /\ UNCHANGED <<regVars, size, ring, removeLock, updated, nChans, chBroker, recv,
                   reading, hsVars, now, nMsgs, nOps, nAdmin, cfg, envVars>>

\* ------------------------------------------------------------------- sweep
\* CleanUpBrokers: brokersLock.Lock() and the start of the range over brokers
StartCleanUp(t) ==
    /\ pc[t] = "idle"
    /\ nAdmin < cfg.admin
    /\ nAdmin' = nAdmin + 1
    /\ brokersLock = None
    /\ brokersLock' = t
    /\ loc' = [loc EXCEPT ![t] = [Idle EXCEPT !.op = "CleanUp",
                 !.tps = {tp \in Topics : brokers[tp] # NoBroker}]]
    /\ pc' = [pc EXCEPT ![t] = "sweep"]
    /\ hist' = [hist EXCEPT !.sweeps = @ + 1]
    /\ UNCHANGED <<brokers, nBrokers, brokerVars, chanVars, hsVars, now, nMsgs, nOps, cfg, envVars>>

\* one iteration of the range: b.expired(), under b's read lock
CleanNext(t, tp) ==
    /\ pc[t] = "sweep"
    /\ tp \in loc[t].tps
    /\ LET b == brokers[tp] IN
         /\ CanRLock(mu[b])
         /\ IF Expired(updated[b], now)
              THEN /\ loc' = [loc EXCEPT ![t].tps = @ \ {tp}, ![t].b = b, ![t].topic = tp]
                   /\ pc' = [pc EXCEPT ![t] = "delete"]
              ELSE /\ loc' = [loc EXCEPT ![t].tps = @ \ {tp}]
                   /\ pc' = pc
    /\ UNCHANGED <<regVars, brokerVars, chanVars, hsVars, now, nMsgs, nOps, nAdmin,
                   cfg, envVars, hist>>

\* the Broker was reported expired: delete(brokers, topic)
CleanDelete(t) ==
    /\ pc[t] = "delete"
    /\ LET b == loc[t].b IN
         /\ brokers' = [brokers EXCEPT ![loc[t].topic] = NoBroker]
         /\ hist' = [hist EXCEPT !.liveAtSweep[b] =
                        DOMAIN subscribers[b] \cup removeLock[b].r]
    /\ pc' = [pc EXCEPT ![t] = "active"]
    /\ UNCHANGED <<brokersLock, nBrokers, brokerVars, chanVars, hsVars, now, nMsgs,
                   loc, nOps, nAdmin, cfg, envVars>>

\* the range is over: the deferred brokersLock.Unlock()
CleanDone(t) ==
    /\ pc[t] = "sweep"
    /\ loc[t].tps = {}
    /\ brokersLock' = None
    /\ pc' = [pc EXCEPT ![t] = "idle"]
    /\ loc' = [loc EXCEPT ![t] = Idle]
    /\ UNCHANGED <<brokers, nBrokers, brokerVars, chanVars, hsVars, now, nMsgs, nOps, nAdmin, cfg, envVars,
                   hist>>

\* removeSubscribers: subs := b.activeSubscribers(), a copy under the write lock
ActiveSubscribers(t) ==
    /\ pc[t] = "active"
    /\ LET b == loc[t].b IN
         /\ CanEnter(mu[b], t)
         /\ loc' = [loc EXCEPT ![t].todo = DOMAIN subscribers[b]]
         /\ mu' = [mu EXCEPT ![b].w = None]
    /\ pc' = [pc EXCEPT ![t] = "rmlock"]
    /\ UNCHANGED <<regVars, size, ring, subscribers, removeLock, updated, chanVars,
                   hsVars, now, nMsgs, nOps, nAdmin, cfg, envVars, hist>>

\* removeSubscribers: b.removeLock.Lock() is called; it is owned once r is empty
RemoveLock(t) ==
    /\ pc[t] = "rmlock"
    /\ removeLock[loc[t].b].w = None
    /\ removeLock' = [removeLock EXCEPT ![loc[t].b].w = t]
    /\ pc' = [pc EXCEPT ![t] = "rmloop"]
    /\ UNCHANGED <<regVars, size, ring, subscribers, mu, updated, chanVars, loc,
                   hsVars, now, nMsgs, nOps, nAdmin, cfg, envVars, hist>>

\* removeSubscribers: b.Unsubscribe(ch) for the next channel of the copy
RemoveUnsub(t, c) ==
    /\ pc[t] = "rmloop"
    /\ c \in loc[t].todo
    /\ LET b == loc[t].b
           res == UnsubscribeApply(subscribers[b], closeCount[c], c)
       IN
         /\ removeLock[b].r = {}
         /\ CanEnter(mu[b], t)
         /\ subscribers' = [subscribers EXCEPT ![b] = res[1]]
         /\ closeCount' = [closeCount EXCEPT ![c] = res[2]]
         /\ mu' = [mu EXCEPT ![b].w = None]
    /\ loc' = [loc EXCEPT ![t].todo = @ \ {c}]
    /\ UNCHANGED <<regVars, size, ring, removeLock, updated, nChans, chBroker, recv,
                   reading, pc, hsVars, now, nMsgs, nOps, nAdmin, cfg, envVars, hist>>

\* removeSubscribers returns: the deferred b.removeLock.Unlock()
RemoveUnlock(t) ==
    /\ pc[t] = "rmloop"
    /\ loc[t].todo = {}
    /\ LET b == loc[t].b IN
         /\ removeLock[b].r = {}
         /\ removeLock' = [removeLock EXCEPT ![b].w = None]
         /\ hist' = [hist EXCEPT !.swept[b] = TRUE]
    /\ pc' = [pc EXCEPT ![t] = "sweep"]
    /\ loc' = [loc EXCEPT ![t].b = NoBroker, ![t].topic = "none"]
    /\ UNCHANGED <<regVars, size, ring, subscribers, mu, updated, chanVars, hsVars,
                   now, nMsgs, nOps, nAdmin, cfg, envVars>>

\* the consumer of channel c stops receiving from it
StopReading(c) ==
    /\ c \in 1..nChans
    /\ reading[c]
    /\ reading' = [reading EXCEPT ![c] = FALSE]
    /\ UNCHANGED <<regVars, brokerVars, nChans, chBroker, closeCount, recv, pc, loc,
                   hsVars, now, nMsgs, nOps, nAdmin, cfg, envVars, hist>>

\* more than the TTL passes
Tick ==
    /\ now < MaxTime
    /\ now' = now + TTL + 1
    /\ UNCHANGED <<regVars, brokerVars, chanVars, pc, loc, hsVars, nMsgs, nOps, nAdmin, cfg, envVars, hist>>

\* --------------------------------------------------------- specifications
Registry(t) == FindRead(t) \/ CreateLock(t) \/ CreateInsert(t)

Handshake(c) ==
    HsRLock(c) \/ HsWait(c) \/ HsEmit(c) \/ HsSend(c) \/ HsSet(c) \/ HsRUnlock(c)

Sweep(t) ==
    \/ StartCleanUp(t)
    \/ \E tp \in Topics : CleanNext(t, tp)
    \/ CleanDelete(t)
    \/ CleanDone(t)
    \/ ActiveSubscribers(t)
    \/ RemoveLock(t)
    \/ \E c \in Chans : RemoveUnsub(t, c)
    \/ RemoveUnlock(t)

\* producers and subscribers only
NextPubSub ==
    \/ \E t \in Threads, tp \in Topics :
          StartFull(t, tp) \/ StartDiff(t, tp) \/ StartStream(t, tp)
    \/ \E t \in Threads, tp \in Topics, k \in {"fd", "buf"} : StartSubscribe(t, tp, k)
    \/ \E t \in Threads : Registry(t) \/ BrokerFull(t) \/ DiffRLock(t) \/ BrokerSubscribe(t)
    \/ \E t \in Threads, c \in Chans : DiffSend(t, c)
    \/ \E c \in Chans : Handshake(c)
    \/ \E h \in Holders, b \in BrokerIds : Announce(h, b)

Next ==
    \/ NextPubSub
    \/ \E t \in Threads, c \in Chans : StartUnsubscribe(t, c)
    \/ \E t \in Threads : BrokerUnsubscribe(t) \/ Sweep(t)
    \/ Tick

Spec == Init /\ [][Next]_vars

SpecPubSub == InitPubSub /\ [][NextPubSub]_vars

\* a buffered topic: Stream calls and subscribers that use GetBufferedBroker
NextStream ==
    \/ \E t \in Threads, tp \in Topics : StartStream(t, tp) \/ StartSubscribe(t, tp, "buf")
    \/ \E t \in Threads : Registry(t) \/ BrokerFull(t) \/ DiffRLock(t) \/ BrokerSubscribe(t)
    \/ \E t \in Threads, c \in Chans : DiffSend(t, c)
    \/ \E c \in Chans : Handshake(c)
    \/ \E h \in Holders, b \in BrokerIds : Announce(h, b)

SpecStream == InitStream /\ [][NextStream]_vars

\* two topics, producers, subscribers and the sweep
SpecTopics == InitTopics /\ [][Next]_vars

NextLive == Next \/ \E c \in Chans : StopReading(c)

\* the statements of a call that thread t has begun; a send completes only
\* while the channel's consumer receives
ThreadStep(t) ==
    \/ Registry(t) \/ BrokerFull(t) \/ DiffRLock(t) \/ BrokerSubscribe(t)
    \/ \E c \in Chans : DiffSend(t, c)
    \/ BrokerUnsubscribe(t)
    \/ \E tp \in Topics : CleanNext(t, tp)
    \/ CleanDelete(t) \/ CleanDone(t) \/ ActiveSubscribers(t) \/ RemoveLock(t)
    \/ \E c \in Chans : RemoveUnsub(t, c)
    \/ RemoveUnlock(t)
    \/ \E b \in BrokerIds : Announce(t, b)

\* the statements of the goroutine Subscribe started for channel c
HandshakeStep(c) == Handshake(c) \/ \E b \in BrokerIds : Announce(HsId(c), b)

\* the Go scheduler runs every goroutine that can run
FairLive ==
    /\ \A t \in Threads : WF_vars(ThreadStep(t))
    /\ \A c \in Chans : WF_vars(HandshakeStep(c))

\* every call and every goroutine runs to its end unless it is blocked
SpecLive == InitLive /\ [][NextLive]_vars /\ FairLive

\* ------------------------------------------------------------ package amp
\* A []byte and a string are sequences of byte values.  The header is the
\* JSON object json.Marshal makes of the exported fields of Msg (Type, URI and
\* Replay stand for the ten of them), fields at their zero value omitted.
Publish == 0
TypeRequest == 2
Replay == 1
CompressionNone == 0
CompressionDeflate == 1
separtor == 10

\* compressionLenLimit, scaled down from 8 * 1024
CompressionLenLimit == 8
\* longest topic and path given to NewPublish, longest body, calls on one Msg
MaxStr == 2
MaxBody == 9
MaxCalls == 3

\* '/', an invalid UTF-8 byte, and U+FFFD in UTF-8
Slash == 47
BadByte == 255
RuneError == <<239, 191, 189>>

\* the bytes of key, value pairs and of the object around them
Quote == 34
Backslash == 92

\* strings.Contains(str, "/")
Contains(str, ch) == \E i \in 1..Len(str) : str[i] = ch

\* the index of the last ch in buf
IndexLast(buf, ch) ==
    IF Contains(buf, ch) THEN CHOOSE i \in 1..Len(buf) :
        buf[i] = ch /\ \A j \in (i + 1)..Len(buf) : buf[j] # ch
    ELSE 0
\* the index of the first ch in buf, 0 when there is none
Index(buf, ch) ==
    IF Contains(buf, ch) THEN CHOOSE i \in 1..Len(buf) :
        buf[i] = ch /\ \A j \in 1..(i - 1) : buf[j] # ch
    ELSE 0

\* json: a string value with its escapes; invalid UTF-8 becomes U+FFFD
RECURSIVE JsonEscape(_)
JsonEscape(str) ==
    IF str = <<>> THEN <<>>
    ELSE LET ch == Head(str)
             esc == CASE ch = separtor -> <<Backslash, 110>>
                      [] ch = Quote -> <<Backslash, Quote>>
                      [] ch = Backslash -> <<Backslash, Backslash>>
                      [] ch = BadByte -> <<Backslash, 117, 102, 102, 102, 100>>
                      [] OTHER -> <<ch>>
         IN esc \o JsonEscape(Tail(str))

\* json: the string value that a sequence of escaped bytes stands for
RECURSIVE JsonUnescape(_)
JsonUnescape(str) ==
    IF str = <<>> THEN <<>>
    ELSE IF Head(str) # Backslash THEN <<Head(str)>> \o JsonUnescape(Tail(str))
    ELSE IF str[2] = 110 THEN <<separtor>> \o JsonUnescape(SubSeq(str, 3, Len(str)))
    ELSE IF str[2] = 117 THEN RuneError \o JsonUnescape(SubSeq(str, 7, Len(str)))
    ELSE <<str[2]>> \o JsonUnescape(SubSeq(str, 3, Len(str)))

\* json: "k":value for a number (one digit) and for a string
JsonNumber(key, n) == IF n = 0 THEN <<>> ELSE <<<<Quote, key, Quote, 58, 48 + n>>>>
JsonString(key, str) ==
    IF str = <<>> THEN <<>>
    ELSE <<<<Quote, key, Quote, 58, Quote>> \o JsonEscape(str) \o <<Quote>>>>

\* the fields joined by commas
RECURSIVE JsonJoin(_)
JsonJoin(fields) ==
    IF fields = <<>> THEN <<>>
    ELSE IF Len(fields) = 1 THEN fields[1]
    ELSE fields[1] \o <<44>> \o JsonJoin(Tail(fields))

\* json.Marshal(m): tags t, u, l, omitempty
JsonMarshal(e) ==
    <<123>> \o JsonJoin(JsonNumber(116, e.Type) \o JsonString(117, e.URI)
                         \o JsonNumber(108, e.Replay)) \o <<125>>

\* json: the index of the quote that closes the string value begun before i
RECURSIVE JsonStringEnd(_, _)
JsonStringEnd(buf, i) ==
    IF i > Len(buf) THEN 0
    ELSE IF buf[i] = Backslash THEN JsonStringEnd(buf, i + 2)
    ELSE IF buf[i] = Quote THEN i
    ELSE JsonStringEnd(buf, i + 1)

\* json.Unmarshal: the fields of the object, read from index i on, into acc
RECURSIVE JsonFields(_, _, _)
JsonFields(buf, i, acc) ==
    IF i > Len(buf) \/ ~acc.ok THEN [acc EXCEPT !.ok = FALSE]
    ELSE IF buf[i] = 125 THEN [acc EXCEPT !.ok = i = Len(buf)]
    ELSE IF buf[i] = 44 THEN JsonFields(buf, i + 1, acc)
    ELSE IF i + 4 > Len(buf) \/ buf[i] # Quote THEN [acc EXCEPT !.ok = FALSE]
    ELSE LET key == buf[i + 1] IN
         IF buf[i + 4] = Quote
           THEN LET j == JsonStringEnd(buf, i + 5) IN
                IF j = 0 THEN [acc EXCEPT !.ok = FALSE]
                ELSE JsonFields(buf, j + 1,
                       IF key = 117
                         THEN [acc EXCEPT !.URI = JsonUnescape(SubSeq(buf, i + 5, j - 1))]
                         ELSE acc)
           ELSE JsonFields(buf, i + 5,
                  CASE key = 116 -> [acc EXCEPT !.Type = buf[i + 4] - 48]
                    [] key = 108 -> [acc EXCEPT !.Replay = buf[i + 4] - 48]
                    [] OTHER -> acc)

\* &Msg{}: every field at its zero value
ZeroMsg ==
    [made |-> TRUE, Type |-> 0, URI |-> <<>>, Replay |-> 0, body |-> <<>>,
     src |-> <<>>, noCompression |-> FALSE, payloads |-> EmptyMap,
     topic |-> <<>>, path |-> <<>>]

\* json.Unmarshal(header, m): ok, and the fields it set
JsonUnmarshal(buf) ==
    IF buf = <<>> \/ buf[1] # 123
      THEN [ok |-> FALSE, Type |-> 0, URI |-> <<>>, Replay |-> 0]
      ELSE JsonFields(buf, 2, [ok |-> TRUE, Type |-> 0, URI |-> <<>>, Replay |-> 0])

\* flate: the compressed blocks of src, here its runs as (length, byte) pairs
RECURSIVE FlateBlocks(_)
FlateBlocks(src) ==
    IF src = <<>> THEN <<>>
    ELSE LET ch == Head(src)
             run == IF \A i \in 1..Len(src) : src[i] = ch THEN Len(src)
                    ELSE (CHOOSE i \in 1..Len(src) :
                            src[i] # ch /\ \A j \in 1..(i - 1) : src[j] = ch) - 1
         IN <<run, ch>> \o FlateBlocks(SubSeq(src, run + 1, Len(src)))

\* flate: what the blocks decode to
RECURSIVE FlateExpand(_)
FlateExpand(blocks) ==
    IF Len(blocks) < 2 THEN <<>>
    ELSE [i \in 1..blocks[1] |-> blocks[2]] \o FlateExpand(SubSeq(blocks, 3, Len(blocks)))

\* flate: Close() ends the stream with an empty stored block marked final,
\* a header byte and then 00 00 ff ff
FlateFinal == <<1, 0, 0, 255, 255>>

\* flate.NewReader(buf) read to the end: the data of a stream that ends with
\* the final block, nothing otherwise
FlateRead(buf) ==
    IF Len(buf) >= 5 /\ SubSeq(buf, Len(buf) - 4, Len(buf)) = FlateFinal
      THEN FlateExpand(SubSeq(buf, 1, Len(buf) - 5))
      ELSE <<>>

\* deflate: the stream without its last four bytes
deflate(src) ==
    LET buf == FlateBlocks(src) \o FlateFinal
    IN IF Len(buf) > 4 THEN SubSeq(buf, 1, Len(buf) - 4) ELSE buf

\* Undeflate: append 00 00 ff ff and inflate
Undeflate(data) == FlateRead(data \o <<0, 0, 255, 255>>)

\* payload: header, separator, body, and the bytes src marshals to
payload(e) == JsonMarshal(e) \o <<separtor>> \o e.body \o e.src

payloadKey(compression) == compression

\* marshal: len(payload) < compressionLenLimit
BelowLimitInclusive(n) == n <= CompressionLenLimit
BelowLimit(n) == n < CompressionLenLimit

\* marshal(supportedCompression): the Msg after the call, the payload and the
\* flag returned, and whether payload() ran
marshal(e, supportedCompression) ==
    LET compression == IF e.noCompression THEN CompressionNone
                       ELSE supportedCompression
        key == payloadKey(compression)
        plain == payload(e)
        small == BelowLimit(Len(plain))
        used == IF small THEN CompressionNone ELSE compression
        bytes == IF used = CompressionDeflate THEN deflate(plain) ELSE plain
    IN IF key \in DOMAIN e.payloads
         THEN [msg |-> e, payload |-> e.payloads[key],
               usedCompression |-> compression # CompressionNone, built |-> FALSE]
         ELSE [msg |-> [e EXCEPT !.noCompression = @ \/ small,
                                 !.payloads = [k \in DOMAIN @ \cup {key} |->
                                                 IF k = key THEN bytes ELSE @[k]]],
               payload |-> bytes,
               usedCompression |-> used # CompressionNone, built |-> TRUE]

\* Parse: the Msg, or nil (made = FALSE) when the header does not decode
Parse(buf) ==
    LET at == Index(buf, separtor)
        header == IF at = 0 THEN buf ELSE SubSeq(buf, 1, at - 1)
        h == JsonUnmarshal(header)
    IN IF ~h.ok THEN NoMsg
       ELSE [ZeroMsg EXCEPT !.Type = h.Type, !.URI = h.URI, !.Replay = h.Replay,
                            !.body = IF at = 0 THEN <<>>
                                     ELSE SubSeq(buf, at + 1, Len(buf))]

\* NewPublish(topic, path, ts, updateType, o), o marshalling to the bytes src
NewPublish(topic, path, src) ==
    [ZeroMsg EXCEPT !.Type = Publish,
                    !.URI = IF path # <<>> THEN topic \o <<Slash>> \o path ELSE topic,
                    !.topic = topic, !.path = path, !.src = src]

\* Request
Request(e) == [ZeroMsg EXCEPT !.Type = TypeRequest, !.URI = e.URI, !.src = e.src,
                              !.body = e.body]

\* AsReplay
AsReplay(e) == [ZeroMsg EXCEPT !.Type = e.Type, !.URI = e.URI, !.Replay = Replay,
                               !.body = e.body, !.src = e.src]

\* Topic: the Msg after the call (m.topic memoized) and the string returned
Topic(e) ==
    LET at == Index(e.URI, Slash)
        topic == IF e.topic # <<>> THEN e.topic
                 ELSE IF at = 0 THEN e.URI ELSE SubSeq(e.URI, 1, at - 1)
    IN [msg |-> [e EXCEPT !.topic = topic], ret |-> topic]

\* Path: the string returned
Path(e) ==
    LET at == Index(e.URI, Slash)
    IN IF at = 0 THEN <<>> ELSE SubSeq(e.URI, at + 1, Len(e.URI))

\* what the callers of package amp pass in
StrBytes == {separtor, Slash, 97, BadByte}
Strs(n) == UNION {[1..k -> StrBytes] : k \in 0..n}
Bodies == {[i \in 1..n |-> IF i = k THEN separtor ELSE 97] :
             n \in 0..MaxBody, k \in {0, 1, MaxBody}}

\* the arguments of NewPublish: any topic and path with a body of at most one
\* byte, any body with a topic of at most one byte and no path
PublishArgs ==
    {x \in Strs(MaxStr) \X Strs(MaxStr - 1) \X Bodies :
        Len(x[3]) <= 1 \/ (Len(x[1]) <= 1 /\ x[2] = <<>>)}

brokerAll == <<regVars, brokerVars, chanVars, hsVars, now, nMsgs, pc, loc, nOps,
               nAdmin, cfg, hist>>

\* m := NewPublish(topic, path, ts, updateType, o)
MsgNewPublish(topic, path, src) ==
    /\ ~msg.made
    /\ msg' = NewPublish(topic, path, src)
    /\ obs' = NoObs
    /\ UNCHANGED brokerAll

\* m.Marshal() or m.MarshalDeflate()
MsgMarshal(supportedCompression) ==
    /\ msg.made
    /\ obs.calls < MaxCalls
    /\ LET r == marshal(msg, supportedCompression) IN
         /\ msg' = r.msg
         /\ obs' = [obs EXCEPT !.calls = @ + 1, !.returned = TRUE, !.out = r.payload,
                               !.used = r.usedCompression,
                               !.asked = supportedCompression,
                               !.builds[supportedCompression + 1] =
                                   @ + IF r.built THEN 1 ELSE 0]
    /\ UNCHANGED brokerAll

\* the receiver: m = Parse(buf) of the bytes sent, inflated when compressed
MsgParse ==
    /\ msg.made
    /\ obs.returned
    /\ obs.calls < MaxCalls
    /\ LET buf == IF obs.used THEN Undeflate(obs.out) ELSE obs.out IN
         /\ Parse(buf).made
         /\ msg' = Parse(buf)
    /\ obs' = [NoObs EXCEPT !.calls = obs.calls + 1]
    /\ UNCHANGED brokerAll

\* m = m.Request()
MsgRequest ==
    /\ msg.made
    /\ obs.calls < MaxCalls
    /\ msg' = Request(msg)
    /\ obs' = [NoObs EXCEPT !.calls = obs.calls + 1]
    /\ UNCHANGED brokerAll

\* m = m.AsReplay()
MsgAsReplay ==
    /\ msg.made
    /\ obs.calls < MaxCalls
    /\ msg' = AsReplay(msg)
    /\ obs' = [NoObs EXCEPT !.calls = obs.calls + 1]
    /\ UNCHANGED brokerAll

\* m.Topic()
MsgTopic ==
    /\ msg.made
    /\ obs.calls < MaxCalls
    /\ msg' = Topic(msg).msg
    /\ obs' = [obs EXCEPT !.calls = @ + 1, !.topics = Append(@, Topic(msg).ret)]
    /\ UNCHANGED brokerAll

\* m.Path()
MsgPath ==
    /\ msg.made
    /\ obs.calls < MaxCalls
    /\ obs' = [obs EXCEPT !.calls = @ + 1, !.paths = Append(@, Path(msg))]
    /\ UNCHANGED <<brokerAll, msg>>

InitMsg == Init0(0, 0, {})

NextMsg ==
    \/ \E x \in PublishArgs : MsgNewPublish(x[1], x[2], x[3])
    \/ \E supportedCompression \in {CompressionNone, CompressionDeflate} :
          MsgMarshal(supportedCompression)
    \/ MsgParse
    \/ MsgRequest
    \/ MsgAsReplay
    \/ MsgTopic
    \/ MsgPath

\* package amp: one Msg, built by NewPublish, and the calls made on it
SpecMsg == InitMsg /\ [][NextMsg]_vars

\* ------------------------------------------------------------- properties
\* the position of message m in the sequence s of stored messages
Pos(s, m) == CHOOSE k \in 1..Len(s) : s[k] = m

\* the messages channel c received from emit, in order of arrival
Backlog(c) == SelectSeq(recv[c], LAMBDA e : e.k = "full")

\* the messages of a sequence of deliveries
Msgs(s) == [i \in 1..Len(s) |-> s[i].m]

\* message m reached channel c from diff
GotDiff(c, m) == \E i \in 1..Len(recv[c]) : recv[c][i] = [m |-> m, k |-> "diff"]

\* the last k elements of s
LastK(s, k) == IF Len(s) <= k THEN s ELSE SubSeq(s, Len(s) - k + 1, Len(s))

\* the getter that constructed the Broker of channel c
KindOf(c) == IF chBroker[c] = NoBroker THEN "none" ELSE hist.kind[chBroker[c]]

\* the handshake of c has flagged the channel (setSubscriber ran)
Flagged(c) == hs[c] \in {"unlock", "done"}

\* C1: on every channel all backlog messages arrive before any diff, and the
\* backlog messages arrive in the order in which they were stored.
C1_BacklogBeforeDiffs ==
    \A c \in Chans : \A i, j \in 1..Len(recv[c]) :
        (i < j /\ recv[c][j].k = "full") =>
            /\ recv[c][i].k = "full"
            /\ Pos(hist.puts[chBroker[c]], recv[c][i].m)
                 < Pos(hist.puts[chBroker[c]], recv[c][j].m)

\* C1 witness: a channel has received its backlog and then a diff.
C1_Witness ==
    \E c \in Chans :
        /\ Len(recv[c]) >= 2
        /\ recv[c][1].k = "full"
        /\ recv[c][Len(recv[c])].k = "diff"

\* C2: no message is ever sent on a closed channel, by diff or by emit.
C2_NoSendOnClosed == ~hist.panicked

\* C2 witness: a channel that received messages was closed, and a publishDiff
\* took the Broker's read lock after the close.
C2_Witness ==
    \E c \in Chans :
        /\ closeCount[c] = 1
        /\ recv[c] # <<>>
        /\ hist.afterClose[c] # {}

\* C3 (as claimed): no channel receives the same message twice.
C3_NoDuplicate ==
    \A c \in Chans : \A i, j \in 1..Len(recv[c]) :
        i < j => recv[c][i].m # recv[c][j].m

\* C4 (as claimed): on a full/diff Broker that held a full when Subscribe
\* returned, a Diff call begun after that and since returned has delivered its
\* message to the channel once the channel's backlog is through.
C4_DiffAfterSubscribeDelivered ==
    \A c \in Chans : \A m \in hist.owed[c] :
        (KindOf(c) = "fd" /\ hs[c] = "done") => GotDiff(c, m)

\* C4 (amended): a diff that takes the read lock while the channel is flagged
\* receivingDiffs is delivered before diff returns, after the whole backlog; a
\* diff that takes it before the channel is flagged is never delivered to it.
C4_DiffDeliveredWhenFlagged ==
    \A c \in Chans :
        /\ \A m \in hist.due[c] :
              \/ \E t \in Threads : pc[t] = "send" /\ loc[t].m = m /\ c \in loc[t].todo
              \/ /\ GotDiff(c, m)
                 /\ Len(Backlog(c)) = Len(hist.snapAll[c])
        /\ \A m \in hist.skipped[c] \ hist.due[c] : ~GotDiff(c, m)

\* C4 witness: Full, Subscribe, Diff in that order, and the reader has a then b.
C4_Witness ==
    \E c \in Chans : \E m \in hist.owed[c] \cap hist.due[c] :
        /\ KindOf(c) = "fd"
        /\ hist.ringAtSub[c] # <<>>
        /\ Len(recv[c]) = 2
        /\ recv[c][1].k = "full"
        /\ recv[c][2] = [m |-> m, k |-> "diff"]

\* C5 (as claimed): on a full/diff Broker the backlog of a channel is the full
\* that was stored when Subscribe was called.
C5_BacklogIsFullAtSubscribe ==
    \A c \in Chans :
        (/\ KindOf(c) = "fd"
         /\ hist.ringAtSub[c] # <<>>
         /\ hist.emitAt[c] > 0) => hist.snapAll[c] = hist.ringAtSub[c]

\* C5 (amended): on a full/diff Broker the backlog is exactly one message, the
\* full stored last when the handshake emits, and the only diffs the channel
\* receives are those that took the read lock after it was flagged.
C5_BacklogIsLatestFull ==
    \A c \in Chans :
        (KindOf(c) = "fd" /\ hist.emitAt[c] > 0) =>
            /\ hist.snapAll[c] = <<hist.puts[chBroker[c]][hist.emitAt[c]]>>
            /\ Msgs(Backlog(c)) \o snap[c] = hist.snapAll[c]
            /\ Flagged(c) => Msgs(Backlog(c)) = hist.snapAll[c]
            /\ \A i \in 1..Len(recv[c]) :
                  recv[c][i].k = "diff" => recv[c][i].m \in hist.due[c]

\* C5 witness: a full was stored between Subscribe and the emission, the
\* channel got the later one and then a diff.
C5_Witness ==
    \E c \in Chans :
        /\ KindOf(c) = "fd"
        /\ Flagged(c)
        /\ hist.ringAtSub[c] # <<>>
        /\ hist.snapAll[c] # hist.ringAtSub[c]
        /\ Msgs(Backlog(c)) = hist.snapAll[c]

\* C6: on a buffered Broker of capacity K the backlog emitted to a channel is
\* the last K messages stored before the emission, oldest first (all of them
\* when fewer than K were stored).
C6_BacklogIsLastK ==
    \A c \in Chans :
        (KindOf(c) = "buf" /\ hist.emitAt[c] > 0) =>
            /\ hist.snapAll[c] =
                 LastK(SubSeq(hist.puts[chBroker[c]], 1, hist.emitAt[c]), DefaultSize)
            /\ Msgs(Backlog(c)) \o snap[c] = hist.snapAll[c]

\* C6 witness: more than K Stream calls stored their message before the
\* channel was made, and the channel has received the last K of them.
C6_Witness ==
    \E c \in Chans :
        /\ KindOf(c) = "buf"
        /\ Len(hist.ringAtSub[c]) = DefaultSize
        /\ hist.emitAt[c] > DefaultSize
        /\ Flagged(c)
        /\ Msgs(Backlog(c)) = LastK(hist.puts[chBroker[c]], DefaultSize)

\* C7 (as claimed): once removeSubscribers has returned for an evicted Broker,
\* no channel that was in its subscriber map, or whose handshake held the
\* removeLock, when the sweep evicted it is in its subscriber map.
C7_SweepDetachesAll ==
    \A b \in BrokerIds :
        hist.swept[b] => \A c \in hist.liveAtSweep[b] : c \notin DOMAIN subscribers[b]

\* C8 (as claimed): once an Unsubscribe(ch) call has returned, the channel is
\* closed and is not in the subscriber map.
C8_UnsubscribeCloses ==
    \A c \in Chans :
        hist.unsubRet[c] > 0 =>
            closeCount[c] > 0 /\ c \notin DOMAIN subscribers[chBroker[c]]

\* C9: a channel is closed at most once, and in every reachable state
\* Unsubscribe applied twice leaves what Unsubscribe applied once leaves.
C9_UnsubscribeIdempotent ==
    \A c \in Chans :
        /\ closeCount[c] <= 1
        /\ \A b \in BrokerIds :
              LET once == UnsubscribeApply(subscribers[b], closeCount[c], c)
              IN UnsubscribeApply(once[1], once[2], c) = once

\* C9 witness: two Unsubscribe calls on a flagged channel have returned.
C9_Witness ==
    \E c \in Chans :
        /\ hist.unsubRet[c] = 2
        /\ closeCount[c] = 1
        /\ Flagged(c)

\* C10 (as claimed): with no eviction, every caller of a getter holds the
\* Broker that the registry holds for the topic.
C10_OneBrokerPerTopic ==
    \A t \in Threads :
        (loc[t].b # NoBroker /\ hist.sweeps = 0) => loc[t].b = brokers[loc[t].topic]

\* C11 (as claimed): FindBroker's read of the registry map never happens while
\* another task holds the registry's write lock (a create about to insert, a
\* sweep deleting).
C11_RegistryReadUnderLock ==
    [][\A t \in Threads : FindRead(t) => brokersLock = None]_vars

\* the sweep of thread s waits for the handshakes of the Broker it has evicted
\* to release the removeLock
SweepWaits(s) ==
    /\ brokersLock = s
    /\ pc[s] = "rmloop"
    /\ removeLock[loc[s].b].r # {}

\* C12 (as claimed): a caller ready to publish, look up or subscribe on one
\* topic never finds the registry lock held by a sweep that waits for a
\* handshake of another topic's Broker.
C12_NoCrossTopicBlocking ==
    \A t, s \in Threads : \A tp \in cfg.topics :
        (pc[t] = "idle" /\ nOps < cfg.ops /\ loc[s].topic # tp) => ~SweepWaits(s)

\* a step changes the timestamp or the stored messages of a Broker only if it
\* is the full of a publisher on that Broker, or the Broker's construction
OnlyFullRefreshes ==
    \A b \in BrokerIds :
        (updated'[b] # updated[b] \/ ring'[b] # ring[b]) =>
            \/ \E t \in Threads : BrokerFull(t) /\ loc[t].b = b
            \/ \E t \in Threads : CreateInsert(t) /\ nBrokers' = b

\* a sweep deletes a Broker from the registry only if it is expired then
EvictsOnlyExpired ==
    \A t \in Threads : CleanDelete(t) => Expired(updated[loc[t].b], now)

\* C13 (as claimed): only full changes a Broker's timestamp and stored
\* messages, a Broker reported expired is evicted, and a Broker whose last full
\* is within the TTL is never evicted.
C13_LastUpdatedDrivesEviction == [][OnlyFullRefreshes /\ EvictsOnlyExpired]_vars

\* the part of C13 that holds: diff, Subscribe, Unsubscribe and the sweep leave
\* the timestamp and the stored messages alone
C13_FrameOnly == [][OnlyFullRefreshes]_vars

\* C14 (as claimed): on every channel the diffs of Stream calls arrive in the
\* order in which the calls stored their messages, the order a later
\* subscriber's backlog has.
C14_DiffsInStoredOrder ==
    \A c \in Chans : \A i, j \in 1..Len(recv[c]) :
        (i < j /\ recv[c][i].k = "diff" /\ recv[c][j].k = "diff") =>
            Pos(hist.puts[chBroker[c]], recv[c][i].m)
              < Pos(hist.puts[chBroker[c]], recv[c][j].m)

\* the bytes a Msg carries after the separator
BodyBytes(e) == e.body \o e.src

\* the bytes the receiver parses: the payload, inflated when it was compressed
Received == IF obs.used THEN Undeflate(obs.out) ELSE obs.out

\* no byte of the string is the invalid one
ValidUTF8(str) == \A i \in 1..Len(str) : str[i] # BadByte

\* C15 (as claimed): Marshal never compresses; MarshalDeflate compresses
\* exactly when the body is at least compressionLenLimit bytes long.
C15_ThresholdOnBody ==
    obs.returned =>
        /\ obs.asked = CompressionNone => ~obs.used
        /\ obs.asked = CompressionDeflate =>
              (obs.used <=> Len(BodyBytes(msg)) >= CompressionLenLimit)

\* C15 (amended): Marshal returns the plain payload; MarshalDeflate returns the
\* plain payload, uncompressed, when the whole payload (header, separator and
\* body) is shorter than compressionLenLimit, and the deflated payload,
\* compressed, when it is that long or longer.
C15_ThresholdOnPayload ==
    obs.returned =>
        /\ obs.asked = CompressionNone => ~obs.used /\ obs.out = payload(msg)
        /\ obs.asked = CompressionDeflate =>
              IF Len(payload(msg)) < CompressionLenLimit
                THEN ~obs.used /\ obs.out = payload(msg)
                ELSE obs.used /\ obs.out = deflate(payload(msg))

\* C15 witness: MarshalDeflate compressed a Msg whose body is shorter than the
\* limit and whose payload is exactly the limit.
C15_Witness ==
    /\ obs.returned
    /\ obs.asked = CompressionDeflate
    /\ obs.used
    /\ Len(BodyBytes(msg)) < CompressionLenLimit
    /\ Len(payload(msg)) = CompressionLenLimit

\* C16 (as claimed): for each requested compression mode the calls on one Msg
\* build its payload at most once.
C16_PayloadBuiltOnce ==
    \A k \in 1..2 : obs.builds[k] <= 1

\* C17 (as claimed): what the receiver parses from a marshalled Msg has the
\* header fields of the Msg and exactly its body bytes.
C17_RoundTrip ==
    obs.returned =>
        /\ Parse(Received).made
        /\ Parse(Received).Type = msg.Type
        /\ Parse(Received).URI = msg.URI
        /\ Parse(Received).Replay = msg.Replay
        /\ Parse(Received).body = BodyBytes(msg)

\* C17 (amended): the same, for a Msg whose URI is valid UTF-8; the body may be
\* any bytes, the separator among them.
C17_RoundTripValidUTF8 ==
    (obs.returned /\ ValidUTF8(msg.URI)) =>
        /\ Parse(Received).made
        /\ Parse(Received).Type = msg.Type
        /\ Parse(Received).URI = msg.URI
        /\ Parse(Received).Replay = msg.Replay
        /\ Parse(Received).body = BodyBytes(msg)

\* C17 witness: a compressed payload of a Msg with a separator byte in its body
\* and in its URI was inflated and parsed back to the same URI and body.
C17_Witness ==
    /\ obs.returned
    /\ obs.used
    /\ Contains(BodyBytes(msg), separtor)
    /\ Contains(msg.URI, separtor)
    /\ Parse(Received).URI = msg.URI
    /\ Parse(Received).body = BodyBytes(msg)

\* what precedes the first '/' of a URI, and what follows it
UriTopic(uri) == IF Contains(uri, Slash) THEN SubSeq(uri, 1, Index(uri, Slash) - 1) ELSE uri
UriPath(uri) ==
    IF Contains(uri, Slash) THEN SubSeq(uri, Index(uri, Slash) + 1, Len(uri)) ELSE <<>>

\* C18 (as claimed): every call of Topic() returns what precedes the first '/'
\* of the Msg's URI, and every call of Path() what follows it.
C18_TopicPathFromUri ==
    msg.made =>
        /\ \A i \in 1..Len(obs.topics) : obs.topics[i] = UriTopic(msg.URI)
        /\ \A i \in 1..Len(obs.paths) : obs.paths[i] = UriPath(msg.URI)

\* C19 (as claimed): every CleanUpBrokers call returns.
C19_SweepTerminates ==
    \A t \in Threads : (loc[t].op = "CleanUp") ~> (pc[t] = "idle")

\* C20 (as claimed): when a consumer has stopped receiving and calls
\* Unsubscribe(ch) while a diff is blocked on its send to ch, the Unsubscribe
\* call returns and the diff returns.
C20_UnsubscribeReturns ==
    \A t \in Threads : \A p \in Threads \ {t} :
        (/\ pc[t] = "unsub"
         /\ ~reading[loc[t].ch]
         /\ pc[p] = "send" /\ loc[t].ch \in loc[p].todo)
            ~> (pc[t] # "unsub" /\ pc[p] # "send")
====
